---- MODULE Spec2Model ----
(***************************************************************************)
(* Release reconciliation (release) and asset publishing (upload) of       *)
(* src/github.ts, as a state machine over the remote release directory.    *)
(*                                                                         *)
(* Every remote call of an invocation is one atomic step: the request is   *)
(* applied to the remote state and its response (or thrown error) is       *)
(* handled by the code that awaits it.  Between two awaits an invocation   *)
(* does nothing another invocation could observe.                          *)
(***************************************************************************)
EXTENDS Integers, Sequences, FiniteSets, TLC

VARIABLES
    releases,     \* remote: the repository's releases, in listing order
    nextId,       \* remote: id the next created release gets
    pc,           \* per invocation: where release() stands
    cfg,          \* per invocation: its Config
    maxRetries,   \* per invocation: the maxRetries of the current attempt
    page,         \* per invocation: the listing page requested next
    existing,     \* per invocation: existingRelease.data
    result,       \* per invocation: what release() returned or threw
    calls,        \* per invocation: remote requests issued so far, by kind
    req,          \* per invocation: parameters of its last create/update request
    hist,         \* per invocation: what its calls answered (observations)
    snap,         \* per invocation: the remote releases as they were when it started
    assets,       \* remote: the assets of the release, {id, name}, in order
    nextAssetId,  \* remote: id the next uploaded asset gets
    upc,          \* per upload() call: where it stands
    upath,        \* per upload() call: path
    ugiven,       \* per upload() call: currentAssets
    ures,         \* per upload() call: what it returned or threw
    ucalls,       \* per upload() call: remote requests issued so far, by kind
    uobs          \* per upload() call: how it was started and what its calls answered

relVars == <<releases, nextId, pc, cfg, maxRetries, page, existing, result, calls, req, hist, snap>>

upVars == <<assets, nextAssetId, upc, upath, ugiven, ures, ucalls, uobs>>

vars == <<relVars, upVars>>

-----------------------------------------------------------------------------
(* Bounds of the model *)

\* Largest maxRetries an invocation is started with.
MaxRetriesBound == 3
\* Most releases in the repository at the start.
MaxReleases == 3
\* Releases per listing page (the reference asks for 100 per page).
PageSize == 2

\* maxRetries when the caller passes none.
DefaultMaxRetries == 3

Procs == {1, 2}

-----------------------------------------------------------------------------
(* Optional values: a field that may be undefined (or null) *)

NoStr == [set |-> FALSE, val |-> ""]
SomeStr(s) == [set |-> TRUE, val |-> s]
NoBool == [set |-> FALSE, val |-> FALSE]
SomeBool(b) == [set |-> TRUE, val |-> b]

\* JavaScript truthiness of an optional string / boolean.
Truthy(o) == o.set /\ o.val # ""
TruthyBool(o) == o.set /\ o.val
\* o ?? ''
OrEmpty(o) == IF o.set THEN o.val ELSE ""

-----------------------------------------------------------------------------
(* Config helpers *)

TagPrefix == "refs/tags/"

\* util.isTag: the ref looks like a tag ref.
isTag(ref) ==
    /\ Len(ref) >= Len(TagPrefix)
    /\ SubSeq(ref, 1, Len(TagPrefix)) = TagPrefix

\* util.releaseBody: the configured body text, undefined when none is supplied.
releaseBody(c) == c.input_body

\* tag_name of release()
TagName(c) ==
    IF Truthy(c.input_tag_name) THEN c.input_tag_name.val
    ELSE IF isTag(c.github_ref)
         THEN SubSeq(c.github_ref, Len(TagPrefix) + 1, Len(c.github_ref))
         ELSE ""

-----------------------------------------------------------------------------
(* Records *)

NoRelease ==
    [id |-> 0, tag_name |-> "", name |-> NoStr, body |-> NoStr,
     target_commitish |-> "", draft |-> FALSE, prerelease |-> FALSE]

NoError == [name |-> "none", message |-> "", status |-> 0, hasResponse |-> FALSE]

\* An error of the remote call: octokit's RequestError carries a status and a
\* response; a transport failure carries neither.
HttpError(s) == [name |-> "HttpError", message |-> "", status |-> s, hasResponse |-> TRUE]
NetError == [name |-> "Error", message |-> "network", status |-> 0, hasResponse |-> FALSE]
TooManyRetries == [name |-> "Error", message |-> "Too many retries.", status |-> 0, hasResponse |-> FALSE]
\* Reading error.response.data of an error without a response.
TypeErrorNoResponse == [name |-> "TypeError", message |-> "", status |-> 0, hasResponse |-> FALSE]

Ok(r) == [ok |-> TRUE, data |-> r, error |-> NoError]
Err(e) == [ok |-> FALSE, data |-> NoRelease, error |-> e]

\* What release() returned or threw; at names the statement that threw.
NoResult == [kind |-> "none", data |-> NoRelease, error |-> NoError, at |-> "none"]
Returned(r) == [kind |-> "release", data |-> r, error |-> NoError, at |-> "none"]
Thrown(e, at) == [kind |-> "error", data |-> NoRelease, error |-> e, at |-> at]

NoReq ==
    [kind |-> "none", release_id |-> 0, tag_name |-> "", target_commitish |-> NoStr,
     name |-> "", body |-> NoStr, draft |-> NoBool, prerelease |-> NoBool,
     discussion_category_name |-> NoStr, generate_release_notes |-> NoBool]

NoCalls == [list |-> 0, lookup |-> 0, create |-> 0, update |-> 0]

\* Observations of one invocation: the maxRetries it was called with, the
\* attempts that passed the guard, the lookups that answered 404, the creates
\* that failed with a response payload, the creates that succeeded, and the
\* remote calls that failed for no reason of the remote state.
Hist(n) == [given |-> n, attempts |-> 0, lookup404 |-> 0, conflicts |-> 0,
            created |-> 0, faults |-> 0]

-----------------------------------------------------------------------------
(* The remote release directory, as the Releaser interface exposes it *)

Min(S) == CHOOSE x \in S : \A y \in S : x <= y

\* Releaser.getReleaseByTag: the published release of that tag, or a 404.
\* Draft releases are not addressable by tag.
RemoteGetByTag(rs, tag) ==
    LET S == {i \in 1..Len(rs) : rs[i].tag_name = tag /\ ~rs[i].draft}
    IN  IF S = {} THEN Err(HttpError(404)) ELSE Ok(rs[Min(S)])

\* The release a create request makes.
NewRelease(id, q) ==
    [id |-> id, tag_name |-> q.tag_name, name |-> SomeStr(q.name), body |-> q.body,
     target_commitish |-> IF q.target_commitish.set THEN q.target_commitish.val ELSE "main",
     draft |-> TruthyBool(q.draft), prerelease |-> TruthyBool(q.prerelease)]

\* A published release of the tag exists and the request asks for another one.
CreateConflicts(rs, q) ==
    /\ ~TruthyBool(q.draft)
    /\ \E i \in 1..Len(rs) : rs[i].tag_name = q.tag_name /\ ~rs[i].draft

\* Releaser.createRelease: the response, and the releases after it.
RemoteCreateResp(rs, id, q) ==
    IF CreateConflicts(rs, q) THEN Err(HttpError(422)) ELSE Ok(NewRelease(id, q))

RemoteCreateStore(rs, id, q) ==
    IF CreateConflicts(rs, q) THEN rs ELSE Append(rs, NewRelease(id, q))

\* The release an update request leaves.
UpdatedRelease(r, q) ==
    [id |-> r.id, tag_name |-> q.tag_name, name |-> SomeStr(q.name), body |-> q.body,
     target_commitish |-> q.target_commitish.val,
     draft |-> q.draft.val, prerelease |-> q.prerelease.val]

\* Releaser.updateRelease: the response, and the releases after it.
RemoteUpdateResp(rs, q) ==
    LET S == {i \in 1..Len(rs) : rs[i].id = q.release_id}
    IN  IF S = {} THEN Err(HttpError(404)) ELSE Ok(UpdatedRelease(rs[Min(S)], q))

RemoteUpdateStore(rs, q) ==
    [i \in 1..Len(rs) |->
        IF rs[i].id = q.release_id THEN UpdatedRelease(rs[i], q) ELSE rs[i]]

\* Releaser.allReleases: page k of the listing, and whether a page follows it.
PageData(rs, k) ==
    SubSeq(rs, (k - 1) * PageSize + 1, Min({k * PageSize, Len(rs)}))

HasNextPage(rs, k) == k * PageSize < Len(rs)

-----------------------------------------------------------------------------
(* release(): what it computes *)

\* Mutant of FindTag: the last release of the page with that tag.
FindTagLast(data, tag) ==
    LET S == {i \in 1..Len(data) : data[i].tag_name = tag}
    IN  IF S = {} THEN 0 ELSE CHOOSE x \in S : \A y \in S : y <= x

\* response.data.find(release => release.tag_name === tag_name): the index of
\* the first release of the page with that tag, 0 when there is none.
FindTag(data, tag) ==
    LET S == {i \in 1..Len(data) : data[i].tag_name = tag}
    IN  IF S = {} THEN 0 ELSE Min(S)

\* Mutant of MergeTarget: the override is ignored.
MergeTargetKeep(c, ex) == ex.target_commitish

\* target_commitish of the update request.
MergeTarget(c, ex) ==
    IF Truthy(c.input_target_commitish)
       /\ c.input_target_commitish.val # ex.target_commitish
    THEN c.input_target_commitish.val
    ELSE ex.target_commitish

\* name of the update request.
MergeName(c, ex) ==
    IF Truthy(c.input_name) THEN c.input_name.val
    ELSE IF Truthy(ex.name) THEN ex.name.val
    ELSE TagName(c)

\* Mutant of MergeBody: appends whether or not the append flag is set.
MergeBodyAlwaysAppend(c, ex) ==
    LET workflowBody == OrEmpty(releaseBody(c))
        existingReleaseBody == OrEmpty(ex.body)
    IN  IF workflowBody # "" /\ existingReleaseBody # ""
        THEN existingReleaseBody \o "\n" \o workflowBody
        ELSE IF workflowBody # "" THEN workflowBody ELSE existingReleaseBody

\* Mutant of MergeBody: appends without the separating newline.
MergeBodyNoNewline(c, ex) ==
    LET workflowBody == OrEmpty(releaseBody(c))
        existingReleaseBody == OrEmpty(ex.body)
    IN  IF TruthyBool(c.input_append_body)
        THEN existingReleaseBody \o workflowBody
        ELSE IF workflowBody # "" THEN workflowBody ELSE existingReleaseBody

\* body of the update request.
MergeBody(c, ex) ==
    LET workflowBody == OrEmpty(releaseBody(c))
        existingReleaseBody == OrEmpty(ex.body)
    IN  IF TruthyBool(c.input_append_body) /\ workflowBody # "" /\ existingReleaseBody # ""
        THEN existingReleaseBody \o "\n" \o workflowBody
        ELSE IF workflowBody # "" THEN workflowBody ELSE existingReleaseBody

\* Mutant of MergePrerelease: an explicit false counts as unset.
MergePrereleaseTruthy(c, ex) ==
    IF TruthyBool(c.input_prerelease) THEN TRUE ELSE ex.prerelease

\* draft and prerelease of the update request.
MergeDraft(c, ex) == IF c.input_draft.set THEN c.input_draft.val ELSE ex.draft

MergePrerelease(c, ex) ==
    IF c.input_prerelease.set THEN c.input_prerelease.val ELSE ex.prerelease

UpdateParams(c, ex) ==
    [kind |-> "update", release_id |-> ex.id, tag_name |-> TagName(c),
     target_commitish |-> SomeStr(MergeTarget(c, ex)),
     name |-> MergeName(c, ex),
     body |-> SomeStr(MergeBody(c, ex)),
     draft |-> SomeBool(MergeDraft(c, ex)),
     prerelease |-> SomeBool(MergePrerelease(c, ex)),
     discussion_category_name |-> c.input_discussion_category_name,
     generate_release_notes |-> c.input_generate_release_notes]

\* Mutant of CreateParams: the draft flag is not passed on.
CreateParamsNeverDraft(c) ==
    [kind |-> "create", release_id |-> 0, tag_name |-> TagName(c),
     target_commitish |-> c.input_target_commitish,
     name |-> IF Truthy(c.input_name) THEN c.input_name.val ELSE TagName(c),
     body |-> releaseBody(c),
     draft |-> NoBool,
     prerelease |-> c.input_prerelease,
     discussion_category_name |-> c.input_discussion_category_name,
     generate_release_notes |-> c.input_generate_release_notes]

\* Mutant of CreateParams: the name override is ignored and draft defaults to false.
CreateParamsTagOnly(c) ==
    [kind |-> "create", release_id |-> 0, tag_name |-> TagName(c),
     target_commitish |-> c.input_target_commitish,
     name |-> TagName(c),
     body |-> releaseBody(c),
     draft |-> SomeBool(TruthyBool(c.input_draft)),
     prerelease |-> c.input_prerelease,
     discussion_category_name |-> c.input_discussion_category_name,
     generate_release_notes |-> c.input_generate_release_notes]

CreateParams(c) ==
    [kind |-> "create", release_id |-> 0, tag_name |-> TagName(c),
     target_commitish |-> c.input_target_commitish,
     name |-> IF Truthy(c.input_name) THEN c.input_name.val ELSE TagName(c),
     body |-> releaseBody(c),
     draft |-> c.input_draft,
     prerelease |-> c.input_prerelease,
     discussion_category_name |-> c.input_discussion_category_name,
     generate_release_notes |-> c.input_generate_release_notes]

\* Mutant of CatchPc: every error of the try block goes on to the create request.
CatchPcAlwaysCreate(e) == "create"

\* The catch of the try block, entered with error e: a 404 goes on to the
\* create request, anything else is rethrown.
CatchPc(e) == IF e.status = 404 THEN "create" ELSE "failed"

CatchResult(old, e, at) == IF e.status = 404 THEN old ELSE Thrown(e, at)

\* The catch of the create request, entered with error e: the log line reads
\* e.response.data.errors, then the whole of release() runs again with one
\* retry less.
\* Mutant of CreateCatchPc: a failed create ends the invocation, no retry.
CreateCatchPcGiveUp(e) == "failed"

CreateCatchPc(e) == IF e.hasResponse THEN "entry" ELSE "failed"

CreateCatchResult(old, e) ==
    IF e.hasResponse THEN old ELSE Thrown(TypeErrorNoResponse, "create")

\* Mutant of CreateCatchRetries: a retry counts down by two.
CreateCatchRetriesByTwo(n, e) == IF e.hasResponse THEN n - 2 ELSE n

\* Mutant of CreateCatchRetries: the retry does not count down.
CreateCatchRetriesKept(n, e) == n

CreateCatchRetries(n, e) == IF e.hasResponse THEN n - 1 ELSE n

\* Mutant of Exhausted: the guard lets maxRetries = 0 through.
ExhaustedBelowZero(n) == n < 0

\* The guard at the entry of release().
Exhausted(n) == n <= 0

-----------------------------------------------------------------------------
(* release(): its steps.  f is the error the remote call throws, NoError     *)
(* when the remote answers the request as it stands.                        *)

Fault(f) == IF f = NoError THEN 0 ELSE 1

\* Mutant of DraftScan: the draft scan never runs.
DraftScanNever(c) == FALSE

\* Whether the draft scan runs: if (config.input_draft).
DraftScan(c) == TruthyBool(c.input_draft)

\* Entry of release(), first call or retry: the maxRetries guard.
Enter(p) ==
    /\ pc[p] = "entry"
    /\ IF Exhausted(maxRetries[p])
       THEN /\ pc' = [pc EXCEPT ![p] = "failed"]
            /\ result' = [result EXCEPT ![p] = Thrown(TooManyRetries, "entry")]
            /\ UNCHANGED hist
       ELSE /\ pc' = [pc EXCEPT ![p] =
                        IF DraftScan(cfg[p]) THEN "list" ELSE "lookup"]
            /\ hist' = [hist EXCEPT ![p].attempts = @ + 1]
            /\ UNCHANGED result
    /\ page' = [page EXCEPT ![p] = 1]
    /\ UNCHANGED <<releases, nextId, cfg, maxRetries, existing, calls, req, snap>>
    /\ UNCHANGED upVars

\* One turn of the for-await over releaser.allReleases: request a page, search it.
ListPage(p, f) ==
    /\ pc[p] = "list"
    /\ calls' = [calls EXCEPT ![p].list = @ + 1]
    /\ hist' = [hist EXCEPT ![p].faults = @ + Fault(f)]
    /\ IF f # NoError
       THEN /\ pc' = [pc EXCEPT ![p] = CatchPc(f)]
            /\ result' = [result EXCEPT ![p] = CatchResult(@, f, "list")]
            /\ UNCHANGED page
       ELSE LET data == PageData(releases, page[p])
                hit == FindTag(data, TagName(cfg[p]))
            IN  IF hit # 0
                THEN /\ pc' = [pc EXCEPT ![p] = "done"]
                     /\ result' = [result EXCEPT ![p] = Returned(data[hit])]
                     /\ UNCHANGED page
                ELSE /\ pc' = [pc EXCEPT ![p] =
                                 IF HasNextPage(releases, page[p]) THEN "list" ELSE "lookup"]
                     /\ page' = [page EXCEPT ![p] = @ + 1]
                     /\ UNCHANGED result
    /\ UNCHANGED <<releases, nextId, cfg, maxRetries, existing, req, snap>>
    /\ UNCHANGED upVars

\* await releaser.getReleaseByTag
GetReleaseByTag(p, f) ==
    /\ pc[p] = "lookup"
    /\ LET resp == IF f = NoError THEN RemoteGetByTag(releases, TagName(cfg[p])) ELSE Err(f)
       IN  /\ calls' = [calls EXCEPT ![p].lookup = @ + 1]
           /\ hist' = [hist EXCEPT ![p].faults = @ + Fault(f),
                                   ![p].lookup404 = @ + (IF resp.error.status = 404 THEN 1 ELSE 0)]
           /\ IF resp.ok
              THEN /\ existing' = [existing EXCEPT ![p] = resp.data]
                   /\ pc' = [pc EXCEPT ![p] = "update"]
                   /\ UNCHANGED result
              ELSE /\ pc' = [pc EXCEPT ![p] = CatchPc(resp.error)]
                   /\ result' = [result EXCEPT ![p] = CatchResult(@, resp.error, "lookup")]
                   /\ UNCHANGED existing
    /\ UNCHANGED <<releases, nextId, cfg, maxRetries, page, req, snap>>
    /\ UNCHANGED upVars

\* The merge of config and existing release, and await releaser.updateRelease
UpdateRelease(p, f) ==
    /\ pc[p] = "update"
    /\ LET q == UpdateParams(cfg[p], existing[p])
           resp == IF f = NoError THEN RemoteUpdateResp(releases, q) ELSE Err(f)
       IN  /\ calls' = [calls EXCEPT ![p].update = @ + 1]
           /\ hist' = [hist EXCEPT ![p].faults = @ + Fault(f)]
           /\ req' = [req EXCEPT ![p] = q]
           /\ IF resp.ok
              THEN /\ releases' = RemoteUpdateStore(releases, q)
                   /\ pc' = [pc EXCEPT ![p] = "done"]
                   /\ result' = [result EXCEPT ![p] = Returned(resp.data)]
              ELSE /\ pc' = [pc EXCEPT ![p] = CatchPc(resp.error)]
                   /\ result' = [result EXCEPT ![p] = CatchResult(@, resp.error, "update")]
                   /\ UNCHANGED releases
    /\ UNCHANGED <<nextId, cfg, maxRetries, page, existing, snap>>
    /\ UNCHANGED upVars

\* The 404 branch of the catch: await releaser.createRelease, and its own catch
CreateRelease(p, f) ==
    /\ pc[p] = "create"
    /\ LET q == CreateParams(cfg[p])
           resp == IF f = NoError THEN RemoteCreateResp(releases, nextId, q) ELSE Err(f)
       IN  /\ calls' = [calls EXCEPT ![p].create = @ + 1]
           /\ req' = [req EXCEPT ![p] = q]
           /\ hist' = [hist EXCEPT ![p].faults = @ + Fault(f),
                                   ![p].created = @ + (IF resp.ok THEN 1 ELSE 0),
                                   ![p].conflicts = @ + (IF ~resp.ok /\ resp.error.hasResponse
                                                         THEN 1 ELSE 0)]
           /\ IF resp.ok
              THEN /\ releases' = RemoteCreateStore(releases, nextId, q)
                   /\ nextId' = nextId + 1
                   /\ pc' = [pc EXCEPT ![p] = "done"]
                   /\ result' = [result EXCEPT ![p] = Returned(resp.data)]
                   /\ UNCHANGED maxRetries
              ELSE /\ pc' = [pc EXCEPT ![p] = CreateCatchPc(resp.error)]
                   /\ maxRetries' = [maxRetries EXCEPT ![p] = CreateCatchRetries(@, resp.error)]
                   /\ result' = [result EXCEPT ![p] = CreateCatchResult(@, resp.error)]
                   /\ UNCHANGED <<releases, nextId>>
    /\ UNCHANGED <<cfg, page, existing, snap>>
    /\ UNCHANGED upVars

-----------------------------------------------------------------------------
(* upload(): the asset publisher *)

Calls == {1, 2}

Max(S) == CHOOSE x \in S : \A y \in S : y <= x

\* path.basename: what follows the last "/" of the path.
Basename(path) ==
    LET S == {i \in 1..Len(path) : SubSeq(path, i, i) = "/"}
    IN  IF S = {} THEN path ELSE SubSeq(path, Max(S) + 1, Len(path))

\* `${n}` of a number >= 0: its decimal digits.
RECURSIVE NatText(_)
NatText(n) ==
    IF n < 10 THEN SubSeq("0123456789", n + 1, n + 1)
    ELSE NatText(n \div 10) \o SubSeq("0123456789", (n % 10) + 1, (n % 10) + 1)

\* `${v}` of an optional text: "undefined" when there is none.
OptText(o) == IF o.set THEN o.val ELSE "undefined"

\* The parsed body of the upload response: an asset record, or an error body
\* with its message (if it has one).
NoJson == [id |-> 0, name |-> "", message |-> NoStr]
AssetJson(id, name) == [id |-> id, name |-> name, message |-> NoStr]
ErrorJson(msg) == [id |-> 0, name |-> "", message |-> msg]

Response(status, json) == [status |-> status, json |-> json]
NoResponse == Response(0, NoJson)

NoUploadResult == [kind |-> "none", data |-> NoJson, message |-> "", at |-> "none"]
UploadReturned(json) == [kind |-> "asset", data |-> json, message |-> "", at |-> "none"]
UploadThrown(msg, at) == [kind |-> "error", data |-> NoJson, message |-> msg, at |-> at]

NoUploadCalls == [delete |-> 0, upload |-> 0]

\* Observations of one upload() call: whether it was started after the first
\* call ended, whether it was given the release's assets as they were then,
\* the asset id its delete request named, the response to its upload request,
\* and the remote calls that failed for no reason of the remote state.
NoObs == [afterFirst |-> FALSE, fresh |-> TRUE, deleted |-> 0,
          response |-> NoResponse, faults |-> 0]

\* Mutant of CurrentAsset: the search takes the first asset, whatever its name.
CurrentAssetFirst(list, name) == IF Len(list) > 0 THEN 1 ELSE 0

\* Mutant of CurrentAsset: the search never finds the asset.
CurrentAssetNone(list, name) == 0

\* Mutant of Created: every status below 400 counts as success.
CreatedBelow400(status) == status < 400

\* currentAssets.find(({ name: currentName }) => currentName == name): the
\* index of the first asset of that name, 0 when there is none.
CurrentAsset(list, name) ==
    LET S == {i \in 1..Len(list) : list[i].name = name}
    IN  IF S = {} THEN 0 ELSE Min(S)

\* Mutant of DeleteId: the delete request always names asset 1.
DeleteIdAlwaysOne(a) == 1

\* asset_id of the delete request: currentAsset.id || 1
DeleteId(a) == IF a.id # 0 THEN a.id ELSE 1

\* The status that makes upload() return.
Created(status) == status = 201

\* The message of the error upload() throws on any other status.
UploadFailure(name, resp) ==
    "Failed to upload release asset " \o name \o ". Received status code "
        \o NatText(resp.status) \o "\n" \o OptText(resp.json.message)

\* repos.deleteReleaseAsset: the asset of that id is removed; a 404 when the
\* release has none.
RemoteDeleteError(as, id) ==
    IF \E i \in 1..Len(as) : as[i].id = id THEN NoError ELSE HttpError(404)

RemoteDeleteStore(as, id) == SelectSeq(as, LAMBDA a : a.id # id)

\* The upload endpoint: a 201 with the new asset, or a 422 when the release
\* already has an asset of that name.
RemoteUploadResp(as, id, name) ==
    IF \E i \in 1..Len(as) : as[i].name = name
    THEN Response(422, ErrorJson(SomeStr("already_exists")))
    ELSE Response(201, AssetJson(id, name))

RemoteUploadStore(as, id, name) ==
    IF \E i \in 1..Len(as) : as[i].name = name
    THEN as
    ELSE Append(as, [id |-> id, name |-> name])

\* upload() up to its first await: the asset descriptor and the search of
\* currentAssets.  The local file is taken to be readable; of the descriptor
\* only the name reaches the remote state (size, mime and data travel in the
\* request and are not read back).
Begin(k) ==
    /\ upc[k] = "start"
    /\ upc' = [upc EXCEPT ![k] =
                 IF CurrentAsset(ugiven[k], Basename(upath[k])) # 0
                 THEN "delete" ELSE "upload"]
    /\ UNCHANGED <<assets, nextAssetId, upath, ugiven, ures, ucalls, uobs>>
    /\ UNCHANGED relVars

\* await github.rest.repos.deleteReleaseAsset; f is the error it throws when
\* the call fails for no reason of the remote state.
DeleteReleaseAsset(k, f) ==
    /\ upc[k] = "delete"
    /\ LET a == ugiven[k][CurrentAsset(ugiven[k], Basename(upath[k]))]
           id == DeleteId(a)
           e == IF f = NoError THEN RemoteDeleteError(assets, id) ELSE f
       IN  /\ ucalls' = [ucalls EXCEPT ![k].delete = @ + 1]
           /\ uobs' = [uobs EXCEPT ![k].deleted = id, ![k].faults = @ + Fault(f)]
           /\ IF e = NoError
              THEN /\ assets' = RemoteDeleteStore(assets, id)
                   /\ upc' = [upc EXCEPT ![k] = "upload"]
                   /\ UNCHANGED ures
              ELSE /\ upc' = [upc EXCEPT ![k] = "failed"]
                   /\ ures' = [ures EXCEPT ![k] = UploadThrown(e.name, "delete")]
                   /\ UNCHANGED assets
    /\ UNCHANGED <<nextAssetId, upath, ugiven>>
    /\ UNCHANGED relVars

\* await fetch(endpoint, POST), response.json() and the status check; r is
\* the response when the call fails for no reason of the remote state.  The
\* response body is structured data, as the upload endpoint's contract says.
PostAsset(k, r) ==
    /\ upc[k] = "upload"
    /\ LET name == Basename(upath[k])
           resp == IF r = NoResponse THEN RemoteUploadResp(assets, nextAssetId, name) ELSE r
       IN  /\ ucalls' = [ucalls EXCEPT ![k].upload = @ + 1]
           /\ uobs' = [uobs EXCEPT ![k].response = resp,
                                   ![k].faults = @ + (IF r = NoResponse THEN 0 ELSE 1)]
           /\ assets' = IF r = NoResponse
                        THEN RemoteUploadStore(assets, nextAssetId, name) ELSE assets
           /\ nextAssetId' = IF resp.status = 201 THEN nextAssetId + 1 ELSE nextAssetId
           /\ IF Created(resp.status)
              THEN /\ upc' = [upc EXCEPT ![k] = "done"]
                   /\ ures' = [ures EXCEPT ![k] = UploadReturned(resp.json)]
              ELSE /\ upc' = [upc EXCEPT ![k] = "failed"]
                   /\ ures' = [ures EXCEPT ![k] =
                                 UploadThrown(UploadFailure(name, resp), "upload")]
    /\ UNCHANGED <<upath, ugiven>>
    /\ UNCHANGED relVars

-----------------------------------------------------------------------------
(* Inputs: configs and initial repositories *)

Config(tag, ref, name, body, target, draft, prerelease, append) ==
    [input_tag_name |-> tag, github_ref |-> ref, input_name |-> name,
     input_body |-> body, input_target_commitish |-> target,
     input_draft |-> draft, input_prerelease |-> prerelease,
     input_append_body |-> append,
     input_discussion_category_name |-> NoStr,
     input_generate_release_notes |-> NoBool]

NoConfig == Config(NoStr, "", NoStr, NoStr, NoStr, NoBool, NoBool, NoBool)

OptBools == {NoBool, SomeBool(TRUE), SomeBool(FALSE)}

\* Where the tag comes from: the ref, or the explicit input (which wins).
TagSources == {<<NoStr, "refs/tags/v1">>, <<SomeStr("v1"), "refs/heads/main">>}

Configs ==
    {Config(t[1], t[2], n, b, c, d, pr, a) :
        t \in TagSources, n \in {NoStr, SomeStr("N")},
        b \in {NoStr, SomeStr(""), SomeStr("new")},
        c \in {NoStr, SomeStr("dev")},
        d \in OptBools, pr \in OptBools, a \in OptBools}

\* The configs of the runs that meet failing remote calls.
FewConfigs ==
    {Config(NoStr, "refs/tags/v1", NoStr, b, NoStr, d, NoBool, NoBool) :
        b \in {NoStr, SomeStr("new")}, d \in {NoBool, SomeBool(TRUE)}}

\* The configs of two invocations racing for the same tag: not in draft mode.
RaceConfigs ==
    {Config(NoStr, "refs/tags/v1", n, b, NoStr, d, NoBool, a) :
        n \in {NoStr, SomeStr("N")}, b \in {NoStr, SomeStr("new")},
        d \in {NoBool, SomeBool(FALSE)}, a \in {NoBool, SomeBool(TRUE)}}

\* Releases a repository may hold at the start (ids are given by position).
Templates ==
    { [id |-> 0, tag_name |-> "v1", name |-> SomeStr("R"), body |-> SomeStr("old"),
       target_commitish |-> "main", draft |-> FALSE, prerelease |-> FALSE],
      [id |-> 0, tag_name |-> "v1", name |-> NoStr, body |-> NoStr,
       target_commitish |-> "dev", draft |-> FALSE, prerelease |-> TRUE],
      [id |-> 0, tag_name |-> "v1", name |-> SomeStr("R"), body |-> SomeStr(""),
       target_commitish |-> "main", draft |-> FALSE, prerelease |-> FALSE],
      [id |-> 0, tag_name |-> "v1", name |-> NoStr, body |-> NoStr,
       target_commitish |-> "main", draft |-> TRUE, prerelease |-> FALSE],
      [id |-> 0, tag_name |-> "v2", name |-> SomeStr("R"), body |-> SomeStr("old"),
       target_commitish |-> "main", draft |-> FALSE, prerelease |-> TRUE],
      [id |-> 0, tag_name |-> "v2", name |-> NoStr, body |-> NoStr,
       target_commitish |-> "main", draft |-> TRUE, prerelease |-> FALSE] }

WithIds(rs) == [i \in 1..Len(rs) |-> [rs[i] EXCEPT !.id = i]]

\* At most one published release per tag.
PublishedUnique(rs) ==
    \A i, j \in 1..Len(rs) :
        (i # j /\ rs[i].tag_name = rs[j].tag_name) => (rs[i].draft \/ rs[j].draft)

Stores ==
    UNION { {WithIds(rs) : rs \in {x \in [1..n -> Templates] : PublishedUnique(x)}} :
            n \in 0..MaxReleases }

InitCommon ==
    /\ nextId = Len(releases) + 1
    /\ page = [p \in Procs |-> 1]
    /\ existing = [p \in Procs |-> NoRelease]
    /\ result = [p \in Procs |-> NoResult]
    /\ calls = [p \in Procs |-> NoCalls]
    /\ req = [p \in Procs |-> NoReq]
    /\ hist = [p \in Procs |-> Hist(maxRetries[p])]
    /\ snap = [p \in Procs |-> releases]
    /\ assets = <<>>
    /\ nextAssetId = 1
    /\ upc = [k \in Calls |-> "idle"]
    /\ upath = [k \in Calls |-> ""]
    /\ ugiven = [k \in Calls |-> <<>>]
    /\ ures = [k \in Calls |-> NoUploadResult]
    /\ ucalls = [k \in Calls |-> NoUploadCalls]
    /\ uobs = [k \in Calls |-> NoObs]

-----------------------------------------------------------------------------
(* Spec: one invocation, any maxRetries, against a remote whose calls may    *)
(* fail.                                                                    *)

Faults == {NoError, HttpError(404), HttpError(422), HttpError(500), NetError}

Init ==
    /\ releases \in Stores
    /\ \E c \in FewConfigs, n \in -1..MaxRetriesBound :
          /\ cfg = [p \in Procs |-> IF p = 1 THEN c ELSE NoConfig]
          /\ maxRetries = [p \in Procs |-> IF p = 1 THEN n ELSE 0]
    /\ pc = [p \in Procs |-> IF p = 1 THEN "entry" ELSE "idle"]
    /\ InitCommon

Next ==
    \/ Enter(1)
    \/ \E f \in Faults : ListPage(1, f)
    \/ \E f \in Faults : GetReleaseByTag(1, f)
    \/ \E f \in Faults : UpdateRelease(1, f)
    \/ \E f \in Faults : CreateRelease(1, f)

Spec == Init /\ [][Next]_vars

-----------------------------------------------------------------------------
(* SpecTwice: a run with the default maxRetries against a remote that only  *)
(* fails as its state demands, then a second run with the same config.      *)

\* The caller runs release() again with the config of the first run.
Rerun ==
    /\ pc[1] = "done"
    /\ pc[2] = "idle"
    /\ pc' = [pc EXCEPT ![2] = "entry"]
    /\ cfg' = [cfg EXCEPT ![2] = cfg[1]]
    /\ maxRetries' = [maxRetries EXCEPT ![2] = DefaultMaxRetries]
    /\ hist' = [hist EXCEPT ![2] = Hist(DefaultMaxRetries)]
    /\ snap' = [snap EXCEPT ![2] = releases]
    /\ UNCHANGED <<releases, nextId, page, existing, result, calls, req>>
    /\ UNCHANGED upVars

InitTwice ==
    /\ releases \in Stores
    /\ \E c \in Configs : cfg = [p \in Procs |-> IF p = 1 THEN c ELSE NoConfig]
    /\ maxRetries = [p \in Procs |-> IF p = 1 THEN DefaultMaxRetries ELSE 0]
    /\ pc = [p \in Procs |-> IF p = 1 THEN "entry" ELSE "idle"]
    /\ InitCommon

NextTwice ==
    \/ \E p \in Procs : Enter(p)
    \/ \E p \in Procs : ListPage(p, NoError)
    \/ \E p \in Procs : GetReleaseByTag(p, NoError)
    \/ \E p \in Procs : UpdateRelease(p, NoError)
    \/ \E p \in Procs : CreateRelease(p, NoError)
    \/ Rerun

SpecTwice == InitTwice /\ [][NextTwice]_vars

-----------------------------------------------------------------------------
(* SpecRace: two invocations for the same tag, not in draft mode, with the  *)
(* default maxRetries, their remote calls interleaved in any order; no      *)
(* release of the tag exists at the start.                                  *)

InitRace ==
    /\ releases \in {rs \in Stores : \A i \in 1..Len(rs) : rs[i].tag_name # "v1"}
    /\ cfg \in [Procs -> RaceConfigs]
    /\ maxRetries = [p \in Procs |-> DefaultMaxRetries]
    /\ pc = [p \in Procs |-> "entry"]
    /\ InitCommon

NextRace ==
    \/ \E p \in Procs : Enter(p)
    \/ \E p \in Procs : GetReleaseByTag(p, NoError)
    \/ \E p \in Procs : UpdateRelease(p, NoError)
    \/ \E p \in Procs : CreateRelease(p, NoError)

SpecRace == InitRace /\ [][NextRace]_vars

-----------------------------------------------------------------------------
(* SpecUpload: upload() of one file to a release, and a second upload()     *)
(* started while the first runs or after it ended, given either the        *)
(* release's assets as they are then or the list the first call was given. *)

\* Most assets on the release at the start.
MaxAssets == 2

Paths == {"dist/app.zip", "notes.txt"}

AssetNames == {"app.zip", "notes.txt", "old.bin"}

\* Asset names are unique within a release.
AssetLists ==
    UNION { {[i \in 1..n |-> [id |-> i, name |-> f[i]]] :
                f \in {g \in [1..n -> AssetNames] :
                          \A i, j \in 1..n : i # j => g[i] # g[j]}} :
            n \in 0..MaxAssets }

\* Errors and responses of remote calls that fail for no reason of the
\* remote state.
DeleteFaults == {NoError, HttpError(500)}

UploadFaults ==
    {NoResponse,
     Response(500, ErrorJson(SomeStr("Server Error"))),
     Response(200, ErrorJson(NoStr))}

\* The caller starts the second upload().
StartSecond(path, fresh) ==
    /\ upc[2] = "idle"
    /\ upc[1] # "idle"
    /\ upc' = [upc EXCEPT ![2] = "start"]
    /\ upath' = [upath EXCEPT ![2] = path]
    /\ ugiven' = [ugiven EXCEPT ![2] = IF fresh THEN assets ELSE ugiven[1]]
    /\ uobs' = [uobs EXCEPT ![2].afterFirst = upc[1] \in {"done", "failed"},
                            ![2].fresh = (ugiven'[2] = assets)]
    /\ UNCHANGED <<assets, nextAssetId, ures, ucalls>>
    /\ UNCHANGED relVars

InitUpload ==
    /\ releases = <<>>
    /\ cfg = [p \in Procs |-> NoConfig]
    /\ maxRetries = [p \in Procs |-> 0]
    /\ pc = [p \in Procs |-> "idle"]
    /\ nextId = 1
    /\ page = [p \in Procs |-> 1]
    /\ existing = [p \in Procs |-> NoRelease]
    /\ result = [p \in Procs |-> NoResult]
    /\ calls = [p \in Procs |-> NoCalls]
    /\ req = [p \in Procs |-> NoReq]
    /\ hist = [p \in Procs |-> Hist(0)]
    /\ snap = [p \in Procs |-> <<>>]
    /\ assets \in AssetLists
    /\ nextAssetId = Len(assets) + 1
    /\ upc = [k \in Calls |-> IF k = 1 THEN "start" ELSE "idle"]
    /\ \E path \in Paths : upath = [k \in Calls |-> IF k = 1 THEN path ELSE ""]
    /\ ugiven = [k \in Calls |-> IF k = 1 THEN assets ELSE <<>>]
    /\ ures = [k \in Calls |-> NoUploadResult]
    /\ ucalls = [k \in Calls |-> NoUploadCalls]
    /\ uobs = [k \in Calls |-> NoObs]

NextUpload ==
    \/ \E k \in Calls : Begin(k)
    \/ \E k \in Calls, f \in DeleteFaults : DeleteReleaseAsset(k, f)
    \/ \E k \in Calls, r \in UploadFaults : PostAsset(k, r)
    \/ \E path \in Paths, fresh \in BOOLEAN : StartSecond(path, fresh)

SpecUpload == InitUpload /\ [][NextUpload]_vars

-----------------------------------------------------------------------------
(* Claims *)

Ended(p) == pc[p] \in {"done", "failed"}

\* C2: called with maxRetries = N >= 1, an invocation issues at most N create
\* requests over all its attempts; when every attempt's tag lookup answered
\* not-found and every attempt's create failed with a response payload, it has
\* ended with the 'Too many retries.' error after exactly N create requests;
\* and an error the caller receives from the create statement is never the
\* create's own (conflict) error.
C2_BoundedCreates ==
    \A p \in Procs :
        hist[p].given >= 1 =>
            /\ calls[p].create <= hist[p].given
            /\ ( /\ Ended(p)
                 /\ hist[p].lookup404 = hist[p].attempts
                 /\ hist[p].conflicts = hist[p].attempts )
               => /\ pc[p] = "failed"
                  /\ result[p] = Thrown(TooManyRetries, "entry")
                  /\ calls[p].create = hist[p].given
            /\ result[p].at = "create" => ~result[p].error.hasResponse

\* C2 witness: three conflicts in a row used up maxRetries = 3.
C2_Witness ==
    /\ hist[1].given = 3
    /\ pc[1] = "failed"
    /\ hist[1].lookup404 = 3
    /\ hist[1].conflicts = 3
    /\ calls[1].create = 3
    /\ result[1].error.message = "Too many retries."

\* C3: called with maxRetries <= 0, an invocation fails at once with the
\* 'Too many retries.' error and issues no remote call: no listing, no tag
\* lookup, no create, no update; the remote releases stay as they were.
C3_NoCallWhenExhausted ==
    \A p \in Procs :
        (pc[p] # "idle" /\ hist[p].given <= 0) =>
            /\ pc[p] \in {"entry", "failed"}
            /\ calls[p] = NoCalls
            /\ releases = snap[p]
            /\ pc[p] = "failed" => result[p] = Thrown(TooManyRetries, "entry")

\* C3 witness: a call with maxRetries = 0 has failed.
C3_Witness ==
    /\ hist[1].given = 0
    /\ pc[1] = "failed"
    /\ result[1].error.message = "Too many retries."

\* The body the config asks for, and the body of the release looked up, as
\* texts (absent, undefined and null read as the empty text).
ConfiguredBody(p) == IF cfg[p].input_body.set THEN cfg[p].input_body.val ELSE ""

ExistingBody(p) == IF existing[p].body.set THEN existing[p].body.val ELSE ""

AppendFlag(p) == cfg[p].input_append_body = SomeBool(TRUE)

Updating(p) == req[p].kind = "update"

\* C8: with the append-body flag false or unset, the body of the update
\* request is the configured body when that is non-empty, and otherwise the
\* existing body (empty when null); it is never the two joined.
C8_BodyWithoutAppend ==
    \A p \in Procs :
        (Updating(p) /\ ~AppendFlag(p)) =>
            /\ req[p].body.set
            /\ ConfiguredBody(p) # "" => req[p].body.val = ConfiguredBody(p)
            /\ ConfiguredBody(p) = "" => req[p].body.val = ExistingBody(p)
            /\ (ConfiguredBody(p) # "" /\ ExistingBody(p) # "")
               => Len(req[p].body.val) < Len(ExistingBody(p)) + Len(ConfiguredBody(p))

\* C8 witness: an update without the append flag where both bodies are non-empty.
C8_Witness ==
    /\ Updating(1)
    /\ cfg[1].input_append_body \in {NoBool, SomeBool(FALSE)}
    /\ ConfiguredBody(1) = "new"
    /\ ExistingBody(1) = "old"
    /\ req[1].body.val = "new"

\* C9: with the append-body flag true, the body of the update request is
\* existing + "\n" + configured when both are non-empty; when either is empty
\* no newline is added and the body is the other one.
C9_BodyWithAppend ==
    \A p \in Procs :
        (Updating(p) /\ AppendFlag(p)) =>
            /\ req[p].body.set
            /\ (ConfiguredBody(p) # "" /\ ExistingBody(p) # "")
               => req[p].body.val = ExistingBody(p) \o "\n" \o ConfiguredBody(p)
            /\ ConfiguredBody(p) = "" => req[p].body.val = ExistingBody(p)
            /\ ExistingBody(p) = "" => req[p].body.val = ConfiguredBody(p)

\* C9 witness: an appending update of two non-empty bodies.
C9_Witness ==
    /\ Updating(1)
    /\ AppendFlag(1)
    /\ ExistingBody(1) = "old"
    /\ ConfiguredBody(1) = "new"
    /\ req[1].body.val = "old\nnew"
    /\ Len(req[1].body.val) = 7

\* The releases of the invocation's tag as the listing held them when it
\* started, by position.
TagHits(p) == {i \in 1..Len(snap[p]) : snap[p][i].tag_name = TagName(cfg[p])}

\* The listing page that holds position i.
PageOf(i) == ((i - 1) \div PageSize) + 1

\* The release of that id among rs (NoRelease when there is none).
ById(rs, id) ==
    LET S == {i \in 1..Len(rs) : rs[i].id = id}
    IN  IF S = {} THEN NoRelease ELSE rs[Min(S)]

\* C5: when the tag lookup answered not-found and no other invocation runs,
\* the invocation issues exactly one create request and no update request and
\* returns the created release: its tag is the resolved tag, its name the
\* config's name override if set and else the tag, its body the configured
\* body; draft, prerelease and target commit-ish of the create request are the
\* config's, unchanged.
C5_CreateWhenAbsent ==
    \A p \in Procs :
        (Ended(p) /\ hist[p].lookup404 >= 1) =>
            /\ pc[p] = "done"
            /\ calls[p].create = 1
            /\ calls[p].update = 0
            /\ req[p].kind = "create"
            /\ req[p].draft = cfg[p].input_draft
            /\ req[p].prerelease = cfg[p].input_prerelease
            /\ req[p].target_commitish = cfg[p].input_target_commitish
            /\ result[p].kind = "release"
            /\ result[p].data.tag_name = TagName(cfg[p])
            /\ result[p].data.name =
                  SomeStr(IF cfg[p].input_name.set THEN cfg[p].input_name.val
                          ELSE TagName(cfg[p]))
            /\ result[p].data.body = cfg[p].input_body
            /\ ById(snap[p], result[p].data.id) = NoRelease
            /\ ById(releases, result[p].data.id).tag_name = TagName(cfg[p])

\* C5 witness: a draft, named release was created for a tag that had none.
C5_Witness ==
    /\ pc[1] = "done"
    /\ hist[1].lookup404 = 1
    /\ calls[1].create = 1
    /\ cfg[1].input_name = SomeStr("N")
    /\ cfg[1].input_draft = SomeBool(TRUE)
    /\ result[1].data.name = SomeStr("N")
    /\ result[1].data.draft

\* C6: in draft mode, when the listing holds a release of the resolved tag,
\* the invocation returns the first such release in listing order, requests no
\* page after the one that holds it, and issues no tag lookup, no create and
\* no update: the releases stay as they were.
C6_DraftReturnsFirst ==
    \A p \in Procs :
        (pc[p] # "idle" /\ cfg[p].input_draft = SomeBool(TRUE) /\ TagHits(p) # {}) =>
            /\ pc[p] \in {"entry", "list", "done"}
            /\ calls[p].lookup = 0
            /\ calls[p].create = 0
            /\ calls[p].update = 0
            /\ calls[p].list <= PageOf(Min(TagHits(p)))
            /\ releases = snap[p]
            /\ pc[p] = "done" =>
                  /\ result[p] = Returned(snap[p][Min(TagHits(p))])
                  /\ calls[p].list = PageOf(Min(TagHits(p)))

\* C6 witness: two releases of the tag on the first of two pages; the first
\* one is returned and the second page is never requested.
C6_Witness ==
    /\ pc[1] = "done"
    /\ cfg[1].input_draft = SomeBool(TRUE)
    /\ Cardinality(TagHits(1)) >= 2
    /\ Len(snap[1]) > PageSize
    /\ result[1].data.id = 1
    /\ calls[1].list = 1

\* The fields of a release the reconciliation sets, the body as a text.
Record(r) ==
    [tag_name |-> r.tag_name, name |-> r.name, body |-> OrEmpty(r.body),
     target_commitish |-> r.target_commitish, draft |-> r.draft,
     prerelease |-> r.prerelease]

\* Both runs have returned a release: the second left the release it returned
\* as the first run left it, and issued no create request.
SecondRunChangedNothing ==
    /\ calls[2].create = 0
    /\ result[2].data.id = result[1].data.id
    /\ Record(ById(releases, result[2].data.id)) = Record(ById(snap[2], result[1].data.id))

\* The second run appends: the flag is set and the configured body is non-empty.
Appends(c) == c.input_append_body = SomeBool(TRUE) /\ OrEmpty(c.input_body) # ""

RaceTag == TagName(cfg[1])

TagReleases == {i \in 1..Len(releases) : releases[i].tag_name = RaceTag}

BothDone == pc[1] = "done" /\ pc[2] = "done"

\* w created the release and l updated that release.
WonAndLost(w, l) ==
    /\ hist[w].created = 1
    /\ calls[w].create = 1
    /\ calls[w].update = 0
    /\ hist[l].created = 0
    /\ calls[l].update = 1
    /\ req[l].kind = "update"
    /\ req[l].release_id = result[w].data.id

\* l never asked for a create: its lookup already found the release.
FoundAtLookup(l) ==
    /\ calls[l].create = 0
    /\ calls[l].lookup = 1
    /\ maxRetries[l] = DefaultMaxRetries

\* l's create failed with a conflict and it retried from the lookup, once.
ConflictedAndRetried(l) ==
    /\ calls[l].create = 1
    /\ hist[l].conflicts = 1
    /\ calls[l].lookup = 2
    /\ hist[l].attempts = 2
    /\ maxRetries[l] = DefaultMaxRetries - 1

\* What holds of the race in every interleaving.
RaceSafe ==
    /\ \A p \in Procs : pc[p] # "failed"
    /\ hist[1].created + hist[2].created <= 1
    /\ Cardinality(TagReleases) <= 1
    /\ Cardinality(TagReleases) = hist[1].created + hist[2].created

RaceEnd ==
    /\ Cardinality(TagReleases) = 1
    /\ \A p \in Procs : result[p].kind = "release"
    /\ \A p \in Procs : \A i \in TagReleases : result[p].data.id = releases[i].id

\* C1 as stated: in every interleaving exactly one create succeeds, the other
\* invocation's create fails with a conflict and it retries from the lookup
\* and updates the release the first one created; at the end exactly one
\* release of the tag exists and both have returned its id.
C1_LoserAlwaysConflicts ==
    /\ RaceSafe
    /\ BothDone =>
          \E w, l \in Procs :
              /\ w # l
              /\ WonAndLost(w, l)
              /\ ConflictedAndRetried(l)
              /\ RaceEnd

\* C1 amended: exactly one create succeeds; the other invocation either finds
\* the release at its first lookup and issues no create, or its create fails
\* with a conflict and it retries from the lookup; either way it updates the
\* release the first one created, exactly one release of the tag exists at the
\* end and both have returned its id.
C1_RaceConverges ==
    /\ RaceSafe
    /\ BothDone =>
          \E w, l \in Procs :
              /\ w # l
              /\ WonAndLost(w, l)
              /\ FoundAtLookup(l) \/ ConflictedAndRetried(l)
              /\ RaceEnd

\* C1 witness: both looked up before either created; the loser's create
\* conflicted, its retry found the winner's release and updated it.
C1_Witness ==
    /\ BothDone
    /\ \E w, l \in Procs : w # l /\ WonAndLost(w, l) /\ ConflictedAndRetried(l)
    /\ Cardinality(TagReleases) = 1

\* t occurs in s.
Contains(s, t) ==
    \E i \in 1..(Len(s) - Len(t) + 1) : SubSeq(s, i, i + Len(t) - 1) = t

UploadEnded(k) == upc[k] \in {"done", "failed"}

AssetsNamed(name) == {i \in 1..Len(assets) : assets[i].name = name}

\* The second call publishes the file the first call has published, after it.
SameFileAgain ==
    /\ upc[2] # "idle"
    /\ uobs[2].afterFirst
    /\ upath[2] = upath[1]
    /\ ures[1].kind = "asset"

\* C7: publishing the same file twice in sequence leaves exactly one asset of
\* its name: no release ever holds two assets of one name; given the release's
\* refreshed assets the second call deletes the asset the first call uploaded
\* before it uploads again, and (the remote calls not failing) succeeds; a
\* second call that succeeded has deleted the first call's asset, and its own
\* is the only one of that name.
C7_PublishTwiceOneAsset ==
    /\ \A n \in AssetNames : Cardinality(AssetsNamed(n)) <= 1
    /\ SameFileAgain =>
          /\ (uobs[2].fresh /\ upc[2] \in {"delete", "upload", "done"}) =>
                 /\ CurrentAsset(ugiven[2], Basename(upath[2])) # 0
                 /\ upc[2] # "delete" =>
                       /\ ucalls[2].delete = 1
                       /\ uobs[2].deleted = ures[1].data.id
          /\ (uobs[2].fresh /\ upc[2] = "upload") => AssetsNamed(Basename(upath[2])) = {}
          /\ (uobs[2].fresh /\ uobs[2].faults = 0 /\ UploadEnded(2)) => upc[2] = "done"
          /\ upc[2] = "done" =>
                 /\ ucalls[2].delete = 1
                 /\ uobs[2].deleted = ures[1].data.id
                 /\ ures[2].data.id # ures[1].data.id
                 /\ \E i \in 1..Len(assets) :
                        /\ AssetsNamed(Basename(upath[2])) = {i}
                        /\ assets[i].id = ures[2].data.id

\* C7 witness: the second publish of the file has succeeded, having deleted
\* the asset the first one uploaded.
C7_Witness ==
    /\ SameFileAgain
    /\ upc[2] = "done"
    /\ ucalls[2].delete = 1
    /\ uobs[2].deleted = ures[1].data.id
    /\ Cardinality(AssetsNamed(Basename(upath[1]))) = 1

\* C10: upload() returns the parsed response body exactly when the status of
\* the upload response is 201; on any other status it throws an error whose
\* message holds the asset name, the status code and the message field of the
\* parsed body, and issues no further request: one upload request at most.
C10_UploadStatus ==
    \A k \in Calls :
        /\ ucalls[k].upload <= 1
        /\ ucalls[k].delete <= 1
        /\ ures[k].kind = "asset" => (ucalls[k].upload = 1 /\ uobs[k].response.status = 201)
        /\ ucalls[k].upload = 1 =>
              LET resp == uobs[k].response
                  name == Basename(upath[k])
              IN  /\ UploadEnded(k)
                  /\ resp.status = 201 => ures[k] = UploadReturned(resp.json)
                  /\ resp.status # 201 =>
                        /\ upc[k] = "failed"
                        /\ ures[k].kind = "error"
                        /\ ures[k].at = "upload"
                        /\ Contains(ures[k].message, name)
                        /\ Contains(ures[k].message, NatText(resp.status))
                        /\ resp.json.message.set =>
                              Contains(ures[k].message, "\n" \o resp.json.message.val)

\* C10 witness: a 422 already_exists answer to a second upload of the name.
C10_Witness ==
    /\ upc[2] = "failed"
    /\ uobs[2].response = Response(422, ErrorJson(SomeStr("already_exists")))
    /\ ures[2].message =
          "Failed to upload release asset app.zip. Received status code 422\nalready_exists"

-----------------------------------------------------------------------------
(* Failures of the lookup, the listing, the update and the create *)

\* The errors a remote call may throw that are not a 404.
Not404 == {f \in Faults : f # NoError /\ f.status # 404}

\* C11: when the tag lookup fails with an error whose status is not 404, the
\* invocation ends by throwing that same error, the remote state is what it
\* was when the invocation started, and from then on the invocation issues no
\* request of any kind and does not retry.
C11_LookupErrorRethrown ==
    [][ /\ \A f \in Not404 :
             GetReleaseByTag(1, f) =>
                 /\ pc'[1] = "failed"
                 /\ result'[1] = Thrown(f, "lookup")
                 /\ calls'[1].create = calls[1].create
                 /\ calls'[1].update = calls[1].update
                 /\ maxRetries'[1] = maxRetries[1]
                 /\ releases' = snap[1]
        /\ (result[1].kind = "error" /\ result[1].at = "lookup") =>
                 /\ pc'[1] = "failed"
                 /\ calls' = calls
                 /\ hist'[1].attempts = hist[1].attempts
                 /\ releases' = releases
      ]_vars

\* A lookup answered 500 after an earlier attempt's create had conflicted.
C11_Witness ==
    /\ pc[1] = "failed"
    /\ result[1] = Thrown(HttpError(500), "lookup")
    /\ hist[1].conflicts = 1
    /\ calls[1].lookup = 2
    /\ Len(releases) > 0
    /\ releases = snap[1]

\* The remote errors a listing, lookup, update or create request may throw.
Failures == Faults \ {NoError}

\* C12: within one attempt the create request is reached only from a tag
\* lookup that answered not-found, and every failure of the update request
\* (whatever its status) and of the draft listing ends the invocation with
\* that error, without a create request or a retry.
C12_CreateOnlyAfterLookupNotFound ==
    [][ /\ pc'[1] = "create" =>
             /\ pc[1] = "lookup"
             /\ hist'[1].lookup404 = hist[1].lookup404 + 1
        /\ \A f \in Failures :
             UpdateRelease(1, f) =>
                 /\ pc'[1] = "failed"
                 /\ result'[1] = Thrown(f, "update")
        /\ \A f \in Failures :
             ListPage(1, f) =>
                 /\ pc'[1] = "failed"
                 /\ result'[1] = Thrown(f, "list")
      ]_vars

\* C13: a create request that fails with an error carrying no response payload
\* ends the invocation with that error: no retry, the retry counter as it was,
\* and no listing, lookup, create or update request after it.
C13_CreateFailurePropagated ==
    [][ /\ \A f \in Failures :
             (~f.hasResponse /\ CreateRelease(1, f)) =>
                 /\ pc'[1] = "failed"
                 /\ result'[1] = Thrown(f, "create")
                 /\ maxRetries'[1] = maxRetries[1]
                 /\ releases' = releases
        /\ (result[1].kind = "error" /\ result[1].at = "create") =>
                 /\ pc'[1] = "failed"
                 /\ calls' = calls
                 /\ maxRetries' = maxRetries
                 /\ hist'[1].attempts = hist[1].attempts
      ]_vars

-----------------------------------------------------------------------------
(* The draft scan that finds nothing *)

\* The page requests a full listing of rs takes: an empty listing is one
\* (empty) page.
Pages(rs) == IF Len(rs) = 0 THEN 1 ELSE ((Len(rs) - 1) \div PageSize) + 1

\* C14: in draft mode, when no release of any listing page has the resolved
\* tag, the invocation requests every page, none of which ends it, then looks
\* the tag up; the lookup answering not-found, it issues one create request
\* with draft = true and returns the created draft release.
C14_DraftScanFallsThrough ==
    \A p \in Procs :
        (pc[p] # "idle" /\ cfg[p].input_draft = SomeBool(TRUE) /\ TagHits(p) = {}) =>
            /\ pc[p] \in {"entry", "list", "lookup", "create", "done"}
            /\ calls[p].update = 0
            /\ pc[p] = "entry" => calls[p] = NoCalls
            /\ pc[p] = "list" =>
                  /\ calls[p].list < Pages(snap[p])
                  /\ calls[p].lookup = 0
            /\ pc[p] = "lookup" =>
                  /\ calls[p].list = Pages(snap[p])
                  /\ calls[p].lookup = 0
            /\ pc[p] = "create" =>
                  /\ calls[p].list = Pages(snap[p])
                  /\ calls[p].lookup = 1
                  /\ hist[p].lookup404 = 1
                  /\ calls[p].create = 0
            /\ pc[p] = "done" =>
                  /\ calls[p] = [list |-> Pages(snap[p]), lookup |-> 1,
                                 create |-> 1, update |-> 0]
                  /\ hist[p].lookup404 = 1
                  /\ req[p].kind = "create"
                  /\ req[p].draft = SomeBool(TRUE)
                  /\ result[p].kind = "release"
                  /\ result[p].data.draft
                  /\ result[p].data.tag_name = TagName(cfg[p])

\* C14 witness: two pages of releases of another tag were listed, the lookup
\* answered not-found and the draft release was created.
C14_Witness ==
    /\ pc[1] = "done"
    /\ cfg[1].input_draft = SomeBool(TRUE)
    /\ TagHits(1) = {}
    /\ Len(snap[1]) > PageSize
    /\ calls[1].list = 2
    /\ calls[1].lookup = 1
    /\ req[1].kind = "create"
    /\ result[1].data.draft

-----------------------------------------------------------------------------
(* SpecGiven: upload() given any asset summaries its parameter type admits: *)
(* those of the release, some of them without a usable id (0 stands for an  *)
(* id that is 0 or missing, which `currentAsset.id || 1` treats alike).     *)

Summaries(as) ==
    {[i \in 1..Len(as) |-> [id |-> IF i \in Z THEN 0 ELSE as[i].id, name |-> as[i].name]] :
        Z \in SUBSET (1..Len(as))}

InitGiven ==
    /\ releases = <<>>
    /\ cfg = [p \in Procs |-> NoConfig]
    /\ maxRetries = [p \in Procs |-> 0]
    /\ pc = [p \in Procs |-> "idle"]
    /\ nextId = 1
    /\ page = [p \in Procs |-> 1]
    /\ existing = [p \in Procs |-> NoRelease]
    /\ result = [p \in Procs |-> NoResult]
    /\ calls = [p \in Procs |-> NoCalls]
    /\ req = [p \in Procs |-> NoReq]
    /\ hist = [p \in Procs |-> Hist(0)]
    /\ snap = [p \in Procs |-> <<>>]
    /\ assets \in AssetLists
    /\ nextAssetId = Len(assets) + 1
    /\ upc = [k \in Calls |-> IF k = 1 THEN "start" ELSE "idle"]
    /\ \E path \in Paths : upath = [k \in Calls |-> IF k = 1 THEN path ELSE ""]
    /\ \E given \in Summaries(assets) :
          ugiven = [k \in Calls |-> IF k = 1 THEN given ELSE <<>>]
    /\ ures = [k \in Calls |-> NoUploadResult]
    /\ ucalls = [k \in Calls |-> NoUploadCalls]
    /\ uobs = [k \in Calls |-> NoObs]

SpecGiven == InitGiven /\ [][NextUpload]_vars

\* Whether the list upload() call k was given holds an asset of its file's name.
GivenHasName(k) ==
    \E i \in 1..Len(ugiven[k]) : ugiven[k][i].name = Basename(upath[k])

\* The asset of the file's name in the list call k was given.
GivenMatch(k) == ugiven[k][CurrentAsset(ugiven[k], Basename(upath[k]))]

\* C15: upload() issues a delete request if and only if the asset list it was
\* given holds an asset of the file's basename; the delete names the id of
\* that asset, and the upload request is sent only after the delete has
\* succeeded.
C15_DeleteMatchingBeforeUpload ==
    \A k \in Calls :
        upc[k] # "idle" =>
            /\ ~GivenHasName(k) => ucalls[k].delete = 0
            /\ (GivenHasName(k) /\ upc[k] \in {"upload", "done", "failed"}) =>
                  ucalls[k].delete = 1
            /\ ucalls[k].delete = 1 =>
                  /\ GivenHasName(k)
                  /\ uobs[k].deleted = GivenMatch(k).id
            /\ (ucalls[k].upload >= 1 /\ GivenHasName(k)) =>
                  /\ ucalls[k].delete = 1
                  /\ ures[k].at # "delete"

-----------------------------------------------------------------------------
(* Uploads of different files, and an upload that stops half way *)

\* Both calls have started, for files of different names, each given the
\* release's assets as they were before the first call started.
DistinctFilesSameList ==
    /\ upc[2] # "idle"
    /\ Basename(upath[1]) # Basename(upath[2])
    /\ ugiven[2] = ugiven[1]

\* The names the two calls publish.
PublishedNames == {Basename(upath[k]) : k \in Calls}

\* C16: two upload() calls for files of different names, one after the other
\* or interleaved in any order, each given the release's assets as they were
\* before either started: every call that succeeded leaves exactly one asset
\* of its file's name, a delete request only ever names an asset of the
\* call's own file name, and every asset of another name is still there.
C16_DistinctUploads ==
    DistinctFilesSameList =>
        /\ \A k \in Calls :
              upc[k] = "done" =>
                  \E i \in 1..Len(assets) :
                      /\ AssetsNamed(Basename(upath[k])) = {i}
                      /\ assets[i].id = ures[k].data.id
        /\ \A k \in Calls :
              ucalls[k].delete = 1 =>
                  \E i \in 1..Len(ugiven[k]) :
                      /\ ugiven[k][i].id = uobs[k].deleted
                      /\ ugiven[k][i].name = Basename(upath[k])
        /\ \A i \in 1..Len(ugiven[1]) :
              ugiven[1][i].name \notin PublishedNames =>
                  \E j \in 1..Len(assets) : assets[j] = ugiven[1][i]

\* C16 witness: the two calls ran interleaved and both succeeded; the first
\* replaced the asset of its name, the second added its file, and the asset of
\* a third name, first in the list, is still there.
C16_Witness ==
    /\ DistinctFilesSameList
    /\ ~uobs[2].afterFirst
    /\ upc[1] = "done"
    /\ upc[2] = "done"
    /\ ucalls[1].delete = 1
    /\ ucalls[2].delete = 0
    /\ Len(ugiven[1]) = 2
    /\ ugiven[1][1].name \notin PublishedNames
    /\ Len(assets) = 3

\* The first call has deleted the asset of its file's name and has not
\* uploaded the file: it stopped before the upload request, or that request
\* failed.
DeletedNotUploaded ==
    /\ ucalls[1].delete = 1
    /\ \/ upc[1] = "upload" /\ ucalls[1].upload = 0
       \/ upc[1] = "failed" /\ ures[1].at = "upload"

\* The second call publishes the same file, given the release's assets as
\* they were after the first call's delete request.
RerunRefreshed ==
    /\ upc[2] # "idle"
    /\ upath[2] = upath[1]
    /\ uobs[2].fresh
    /\ ugiven[2] # ugiven[1]

\* C17: once upload() has deleted the asset of the file's name and has not
\* uploaded the file, the release holds no asset of that name until someone
\* uploads one; a second upload() of the file, given the release's refreshed
\* assets, issues no delete request and, its upload request not failing, ends
\* with exactly one asset of that name, its own.
C17_DeleteThenFailThenRerun ==
    DeletedNotUploaded =>
        /\ upc[2] = "idle" => AssetsNamed(Basename(upath[1])) = {}
        /\ RerunRefreshed =>
              /\ CurrentAsset(ugiven[2], Basename(upath[2])) = 0
              /\ ucalls[2].delete = 0
              /\ upc[2] # "delete"
              /\ (UploadEnded(2) /\ uobs[2].faults = 0) => upc[2] = "done"
              /\ upc[2] = "done" =>
                    \E i \in 1..Len(assets) :
                        /\ AssetsNamed(Basename(upath[2])) = {i}
                        /\ assets[i].id = ures[2].data.id

\* C17 witness: the first call deleted the old asset and its upload failed;
\* the second call, started afterwards with the refreshed list, deleted
\* nothing and uploaded the file.
C17_Witness ==
    /\ ucalls[1].delete = 1
    /\ upc[1] = "failed"
    /\ ures[1].at = "upload"
    /\ RerunRefreshed
    /\ uobs[2].afterFirst
    /\ upc[2] = "done"
    /\ ucalls[2].delete = 0
    /\ Cardinality(AssetsNamed(Basename(upath[2]))) = 1
    /\ Len(assets) = 2

-----------------------------------------------------------------------------
(* SpecOverlap: an invocation with any draft, prerelease and target         *)
(* override, and a second one that publishes the tag, their remote calls    *)
(* interleaved in any order against a remote that only fails as its state   *)
(* demands.  The first may find at its lookup a release that its listing    *)
(* did not hold.                                                            *)

OverrideConfigs ==
    {Config(NoStr, "refs/tags/v1", NoStr, NoStr, t, d, pr, NoBool) :
        t \in {NoStr, SomeStr("dev")}, d \in OptBools, pr \in OptBools}

PublisherConfigs ==
    {Config(NoStr, "refs/tags/v1", NoStr, NoStr, NoStr, NoBool, pr, NoBool) :
        pr \in {NoBool, SomeBool(TRUE)}}

InitOverlap ==
    /\ releases \in Stores
    /\ \E c \in OverrideConfigs, d \in PublisherConfigs :
          cfg = [p \in Procs |-> IF p = 1 THEN c ELSE d]
    /\ maxRetries = [p \in Procs |-> DefaultMaxRetries]
    /\ pc = [p \in Procs |-> "entry"]
    /\ InitCommon

NextOverlap ==
    \/ \E p \in Procs : Enter(p)
    \/ \E p \in Procs : ListPage(p, NoError)
    \/ \E p \in Procs : GetReleaseByTag(p, NoError)
    \/ \E p \in Procs : UpdateRelease(p, NoError)
    \/ \E p \in Procs : CreateRelease(p, NoError)

SpecOverlap == InitOverlap /\ [][NextOverlap]_vars

-----------------------------------------------------------------------------
(* The fields of the update request *)

\* C18: the draft flag of an update request is the config's draft value when
\* the config sets one, true or false, and the existing release's flag when
\* the config sets none; likewise, and independently, the prerelease flag.
C18_FlagsOverride ==
    \A p \in Procs :
        req[p].kind = "update" =>
            /\ cfg[p].input_draft = SomeBool(TRUE) => req[p].draft = SomeBool(TRUE)
            /\ cfg[p].input_draft = SomeBool(FALSE) => req[p].draft = SomeBool(FALSE)
            /\ cfg[p].input_draft = NoBool => req[p].draft = SomeBool(existing[p].draft)
            /\ cfg[p].input_prerelease = SomeBool(TRUE) =>
                  req[p].prerelease = SomeBool(TRUE)
            /\ cfg[p].input_prerelease = SomeBool(FALSE) =>
                  req[p].prerelease = SomeBool(FALSE)
            /\ cfg[p].input_prerelease = NoBool =>
                  req[p].prerelease = SomeBool(existing[p].prerelease)
            /\ pc[p] = "done" =>
                  /\ result[p].data.draft = req[p].draft.val
                  /\ result[p].data.prerelease = req[p].prerelease.val

\* C18 witness: a config with draft true and prerelease explicitly false
\* updated a published prerelease that appeared after its listing: the
\* request carried draft true and prerelease false.
C18_Witness ==
    /\ pc[1] = "done"
    /\ req[1].kind = "update"
    /\ cfg[1].input_draft = SomeBool(TRUE)
    /\ cfg[1].input_prerelease = SomeBool(FALSE)
    /\ ~existing[1].draft
    /\ existing[1].prerelease
    /\ req[1].draft = SomeBool(TRUE)
    /\ req[1].prerelease = SomeBool(FALSE)
    /\ ~result[1].data.prerelease

\* C20: the target commit-ish of an update request is the config's override
\* when there is one and it differs from the existing release's, and the
\* existing release's otherwise; an update by a config without an override
\* leaves the release's target commit-ish as it was.
C20_TargetCommitish ==
    \A p \in Procs :
        req[p].kind = "update" =>
            LET override == cfg[p].input_target_commitish
                supplied == override.set /\ override.val # ""
            IN  /\ (supplied /\ override.val # existing[p].target_commitish) =>
                      req[p].target_commitish = override
                /\ (supplied /\ override.val = existing[p].target_commitish) =>
                      req[p].target_commitish = SomeStr(existing[p].target_commitish)
                /\ ~supplied =>
                      /\ req[p].target_commitish = SomeStr(existing[p].target_commitish)
                      /\ pc[p] = "done" =>
                            /\ result[p].data.target_commitish =
                                  existing[p].target_commitish
                            /\ ById(releases, existing[p].id).target_commitish =
                                  existing[p].target_commitish
                /\ pc[p] = "done" =>
                      result[p].data.target_commitish = req[p].target_commitish.val

\* C20 witness: the first run moved the release from "main" to the override
\* "dev"; the second run, its override now equal to the existing value, sent
\* the existing value.
C20_Witness ==
    /\ pc[2] = "done"
    /\ req[1].kind = "update"
    /\ req[2].kind = "update"
    /\ cfg[1].input_target_commitish = SomeStr("dev")
    /\ existing[1].target_commitish = "main"
    /\ req[1].target_commitish = SomeStr("dev")
    /\ existing[2].target_commitish = "dev"
    /\ req[2].target_commitish = SomeStr("dev")
    /\ result[2].data.target_commitish = "dev"

-----------------------------------------------------------------------------
(* SpecLive: Spec, with every awaited remote call answering or throwing in  *)
(* the end, after which the runtime resumes the invocation.                 *)

SpecLive == Spec /\ WF_vars(Next)

\* C19: whatever the remote answers, the invocation ends, returning a release
\* or throwing.  The retry counter changes only at a retry and then goes down
\* by exactly one; the invocation goes back to its entry only from a create
\* request that failed; and a create request is issued only at the create
\* step and has been answered before the invocation does anything else.
C19_Terminates ==
    /\ <>Ended(1)
    /\ [][ /\ maxRetries'[1] # maxRetries[1] =>
                /\ maxRetries'[1] = maxRetries[1] - 1
                /\ pc[1] = "create"
                /\ pc'[1] = "entry"
           /\ (pc'[1] = "entry" /\ pc[1] # "entry") =>
                /\ pc[1] = "create"
                /\ calls'[1].create = calls[1].create + 1
                /\ hist'[1].created = hist[1].created
                /\ maxRetries'[1] = maxRetries[1] - 1
           /\ calls'[1].create # calls[1].create =>
                /\ calls'[1].create = calls[1].create + 1
                /\ pc[1] = "create"
                /\ pc'[1] # "create"
         ]_vars

\* C19 witness: called with maxRetries = 3, the invocation returned the
\* release its third create request made, after two retries.
C19_Witness ==
    /\ pc[1] = "done"
    /\ hist[1].given = 3
    /\ maxRetries[1] = 1
    /\ hist[1].attempts = 3
    /\ calls[1].create = 3
    /\ hist[1].created = 1

====
